---- MODULE Spec2Model ----
(***************************************************************************)
(* Model of src/api/telemetry.py: the one-time OpenTelemetry bootstrap     *)
(* setup_telemetry(service_name=None) and the module-level state it reads  *)
(* and writes (SERVICE_NAME, _telemetry_initialized, the global tracer     *)
(* provider and the global text-map propagator of the OpenTelemetry API).  *)
(*                                                                         *)
(* Every statement of setup_telemetry that constructs an object or changes *)
(* process-wide state is one step of the calling thread, so that the       *)
(* interleavings of several callers are those the interpreter allows.      *)
(* Each step that calls out of the module may raise an Exception.          *)
(* The logger.info/error lines (including the diagnostic os.getcwd() of    *)
(* line 73) are not modelled as steps and never fail here.                 *)
(***************************************************************************)
EXTENDS Naturals, Sequences, FiniteSets

(* Bound: the number of setup_telemetry calls made in one process run. *)
MaxCalls == 3

Threads == {"t1", "t2"}
MainThread == "t1"

(* Python's None, for an argument that was not passed and for an unset
   environment variable.  It is not a str. *)
None == "<None>"

(* The values a caller passes as service_name; "" is a passed, empty str. *)
ServiceNames == {None, "", "svc-a"}

(* The values of OTEL_SERVICE_NAME in the process environment at import. *)
EnvValues == {None, "", "env-svc"}

DefaultServiceName == "kodekloud-record-store-service"

(* The steps of setup_telemetry that run between the flag check and the
   final return, in program order. *)
StepOrder ==
  << "probe", "resource", "provider", "exporter", "processor",
     "set_tracer_provider", "set_global_textmap", "set_flag", "test_span" >>

Steps == { StepOrder[i] : i \in 1..Len(StepOrder) }

(* try: of line 81, handled by the except of line 88. *)
ProbeTry == { "probe" }

(* Mutant of SetupTry: the try block opened only before the exporter, with
   resource and provider construction ahead of it. *)
SetupTryFromExporter ==
  { "exporter", "processor", "set_tracer_provider", "set_global_textmap",
    "set_flag", "test_span" }

(* try: of line 91, handled by the except of line 137. *)
SetupTry ==
  { "resource", "provider", "exporter", "processor",
    "set_tracer_provider", "set_global_textmap", "set_flag", "test_span" }

VARIABLES
  environ,                 \* OTEL_SERVICE_NAME when the module was imported
  SERVICE_NAME,            \* module constant of line 25
  _telemetry_initialized,  \* module flag of line 28
  tracer_provider,         \* global tracer provider: {} or {provider}
  textmap,                 \* global propagator: {} or {propagator}
  frame,                   \* per thread: the locals of its call in progress
  ncalls,                  \* calls started so far
  count,                   \* per step: times it ran to completion
  spans,                   \* service.name of the verification spans emitted
  last,                    \* how the most recently finished call ended
  true_returns             \* calls that returned True so far

vars ==
  << environ, SERVICE_NAME, _telemetry_initialized, tracer_provider, textmap,
     frame, ncalls, count, spans, last, true_returns >>

globals == << _telemetry_initialized, tracer_provider, textmap >>

(* os.getenv(name, default): the value when the variable is set (even to
   the empty string), else the default. *)
getenv(value, default) == IF value = None THEN default ELSE value

(* Python truthiness of an optional str. *)
Truthy(v) == v # None /\ v # ""

(* Mutant of Or: the operands swapped (`b or a`). *)
OrSwapped(a, b) == IF Truthy(b) THEN b ELSE a

(* Python's `a or b`. *)
Or(a, b) == IF Truthy(a) THEN a ELSE b

(* The locals of a thread that is not inside setup_telemetry. *)
IdleFrame ==
  [ pc |-> "idle",                 \* "idle" or the next step of the call
    service_name |-> None,         \* the argument of the call
    actual_service_name |-> None,  \* local of line 69
    provider |-> {},               \* local of line 100: {} or {provider}
    entry_flag |-> FALSE,          \* the flag when the call started
    probe_ok |-> TRUE,             \* outcome of the probe of the call
    trail |-> {} ]                 \* steps the call completed or raised in

(* Before any call has finished. *)
NoCall ==
  [ result |-> "none", raised |-> None, entry_flag |-> FALSE,
    probe_ok |-> TRUE, trail |-> {} ]

Init ==
  /\ environ \in EnvValues
  /\ SERVICE_NAME = getenv(environ, DefaultServiceName)
  /\ _telemetry_initialized = FALSE
  /\ tracer_provider = {}
  /\ textmap = {}
  /\ frame = [t \in Threads |-> IdleFrame]
  /\ ncalls = 0
  /\ count = [s \in Steps |-> 0]
  /\ spans = {}
  /\ last = NoCall
  /\ true_returns = 0

(* The call of thread t ends: by `return value` (how = "True", "False"),
   or by an exception that leaves setup_telemetry (how = "raise"); `step`
   is the step that raised, if one did. *)
Finish(t, how, step) ==
  /\ frame' = [frame EXCEPT ![t] = IdleFrame]
  /\ last' = [ result |-> how, raised |-> step,
               entry_flag |-> frame[t].entry_flag,
               probe_ok |-> IF step \in ProbeTry THEN FALSE
                            ELSE frame[t].probe_ok,
               trail |-> IF step = None THEN frame[t].trail
                         ELSE frame[t].trail \cup {step} ]
  /\ true_returns' = IF how = "True" THEN true_returns + 1 ELSE true_returns

(* The step after `step` in program order. *)
NextStep(step) ==
  LET i == CHOOSE k \in 1..Len(StepOrder) : StepOrder[k] = step
  IN IF i = Len(StepOrder) THEN "return" ELSE StepOrder[i + 1]

(* `step` ran to completion in the call of thread t, leaving its locals
   as in `locals`. *)
Done(t, step, locals) ==
  /\ frame' = [frame EXCEPT ![t] =
       [locals EXCEPT !.pc = NextStep(step), !.trail = @ \cup {step}]]
  /\ count' = [count EXCEPT ![step] = @ + 1]
  /\ UNCHANGED << last, true_returns >>

(* `step` raised an Exception in the call of thread t: the except clause
   of the enclosing try runs; outside any try the exception leaves the
   function. *)
Raise(t, step) ==
  /\ UNCHANGED count
  /\ IF step \in ProbeTry
     THEN /\ frame' = [frame EXCEPT ![t].pc = NextStep(step),
                                    ![t].trail = @ \cup {step},
                                    ![t].probe_ok = FALSE]
          /\ UNCHANGED << last, true_returns >>
     ELSE IF step \in SetupTry
     THEN Finish(t, "False", step)
     ELSE Finish(t, "raise", step)

(* Lines 64-73: a thread enters setup_telemetry(name). *)
Call(t) ==
  /\ frame[t].pc = "idle"
  /\ ncalls < MaxCalls
  /\ \E name \in ServiceNames :
       frame' = [frame EXCEPT ![t] =
         [ IdleFrame EXCEPT
             !.pc = "check",
             !.service_name = name,
             !.actual_service_name = Or(name, SERVICE_NAME),
             !.entry_flag = _telemetry_initialized ]]
  /\ ncalls' = ncalls + 1
  /\ UNCHANGED << environ, SERVICE_NAME, globals, count, spans, last,
                  true_returns >>

(* Mutant of CheckInitialized: the flag is not consulted. *)
CheckInitializedIgnoresFlag(t) ==
  /\ frame[t].pc = "check"
  /\ frame' = [frame EXCEPT ![t].pc = "probe"]
  /\ UNCHANGED << last, true_returns >>
  /\ UNCHANGED << environ, SERVICE_NAME, globals, ncalls, count, spans >>

(* Mutant of CheckInitialized: an initialized process reports True. *)
CheckInitializedReturnsTrue(t) ==
  /\ frame[t].pc = "check"
  /\ IF _telemetry_initialized
     THEN /\ Finish(t, "True", None)
     ELSE /\ frame' = [frame EXCEPT ![t].pc = "probe"]
          /\ UNCHANGED << last, true_returns >>
  /\ UNCHANGED << environ, SERVICE_NAME, globals, ncalls, count, spans >>

(* Lines 75-78: the "only set up once" check. *)
CheckInitialized(t) ==
  /\ frame[t].pc = "check"
  /\ IF _telemetry_initialized
     THEN /\ Finish(t, "False", None)
     ELSE /\ frame' = [frame EXCEPT ![t].pc = "probe"]
          /\ UNCHANGED << last, true_returns >>
  /\ UNCHANGED << environ, SERVICE_NAME, globals, ncalls, count, spans >>

(* Mutant of ConnectivityProbe: a failed probe ends the call with False. *)
ConnectivityProbeGating(t) ==
  /\ frame[t].pc = "probe"
  /\ \E ok \in BOOLEAN :
       IF ok THEN Done(t, "probe", frame[t])
       ELSE /\ Finish(t, "False", "probe")
            /\ UNCHANGED count
  /\ UNCHANGED << environ, SERVICE_NAME, globals, ncalls, spans >>

(* Lines 80-89: the connectivity probe, in its own try/except. *)
ConnectivityProbe(t) ==
  /\ frame[t].pc = "probe"
  /\ \E ok \in BOOLEAN :
       IF ok THEN Done(t, "probe", frame[t]) ELSE Raise(t, "probe")
  /\ UNCHANGED << environ, SERVICE_NAME, globals, ncalls, spans >>

(* Mutant of CreateResource: the flag is set at the top of the try block. *)
CreateResourceMarksInitialized(t) ==
  /\ frame[t].pc = "resource"
  /\ _telemetry_initialized' = TRUE
  /\ \E ok \in BOOLEAN :
       IF ok THEN Done(t, "resource", frame[t]) ELSE Raise(t, "resource")
  /\ UNCHANGED << environ, SERVICE_NAME, tracer_provider, textmap, ncalls,
                  spans >>

(* Lines 94-98: Resource.create with the resolved service name. *)
CreateResource(t) ==
  /\ frame[t].pc = "resource"
  /\ \E ok \in BOOLEAN :
       IF ok THEN Done(t, "resource", frame[t]) ELSE Raise(t, "resource")
  /\ UNCHANGED << environ, SERVICE_NAME, globals, ncalls, spans >>

(* Line 100: TracerProvider(resource=resource); the provider carries the
   resource's service.name and is a new object in every call. *)
CreateTracerProvider(t) ==
  /\ frame[t].pc = "provider"
  /\ \E ok \in BOOLEAN :
       IF ok
       THEN Done(t, "provider",
                 [frame[t] EXCEPT !.provider =
                    {[id |-> count["provider"] + 1,
                      service |-> frame[t].actual_service_name]}])
       ELSE Raise(t, "provider")
  /\ UNCHANGED << environ, SERVICE_NAME, globals, ncalls, spans >>

(* Lines 104-107: OTLPSpanExporter(endpoint="jaeger:4317", insecure=True). *)
CreateExporter(t) ==
  /\ frame[t].pc = "exporter"
  /\ \E ok \in BOOLEAN :
       IF ok THEN Done(t, "exporter", frame[t]) ELSE Raise(t, "exporter")
  /\ UNCHANGED << environ, SERVICE_NAME, globals, ncalls, spans >>

(* Lines 111-113: provider.add_span_processor(BatchSpanProcessor(...)). *)
AddSpanProcessor(t) ==
  /\ frame[t].pc = "processor"
  /\ \E ok \in BOOLEAN :
       IF ok THEN Done(t, "processor", frame[t]) ELSE Raise(t, "processor")
  /\ UNCHANGED << environ, SERVICE_NAME, globals, ncalls, spans >>

(* Line 117: trace.set_tracer_provider(provider).  The OpenTelemetry API
   keeps the first provider it is given: a later call logs "Overriding of
   current TracerProvider is not allowed" and leaves the global alone. *)
SetTracerProvider(t) ==
  /\ frame[t].pc = "set_tracer_provider"
  /\ \E ok \in BOOLEAN :
       IF ok
       THEN /\ Done(t, "set_tracer_provider", frame[t])
            /\ tracer_provider' =
                 IF tracer_provider = {} THEN frame[t].provider
                 ELSE tracer_provider
       ELSE /\ Raise(t, "set_tracer_provider")
            /\ UNCHANGED tracer_provider
  /\ UNCHANGED << environ, SERVICE_NAME, _telemetry_initialized, textmap,
                  ncalls, spans >>

(* Line 121: propagate.set_global_textmap(TraceContextTextMapPropagator()):
   a new propagator object replaces the global one. *)
SetGlobalTextmap(t) ==
  /\ frame[t].pc = "set_global_textmap"
  /\ \E ok \in BOOLEAN :
       IF ok
       THEN /\ Done(t, "set_global_textmap", frame[t])
            /\ textmap' = {[id |-> count["set_global_textmap"] + 1]}
       ELSE /\ Raise(t, "set_global_textmap")
            /\ UNCHANGED textmap
  /\ UNCHANGED << environ, SERVICE_NAME, _telemetry_initialized,
                  tracer_provider, ncalls, spans >>

(* Mutant of SetInitialized: the assignment is missing. *)
SetInitializedForgotten(t) ==
  /\ frame[t].pc = "set_flag"
  /\ Done(t, "set_flag", frame[t])
  /\ UNCHANGED << environ, SERVICE_NAME, globals, ncalls, spans >>

(* Line 123: _telemetry_initialized = True (an assignment: it cannot raise). *)
SetInitialized(t) ==
  /\ frame[t].pc = "set_flag"
  /\ Done(t, "set_flag", frame[t])
  /\ _telemetry_initialized' = TRUE
  /\ UNCHANGED << environ, SERVICE_NAME, tracer_provider, textmap, ncalls,
                  spans >>

(* Mutant of TestSpan: a failed verification span clears the flag again. *)
TestSpanResetsFlag(t) ==
  /\ frame[t].pc = "test_span"
  /\ \E ok \in BOOLEAN :
       IF ok
       THEN /\ Done(t, "test_span", frame[t])
            /\ spans' = spans \cup {frame[t].actual_service_name}
            /\ UNCHANGED _telemetry_initialized
       ELSE /\ Raise(t, "test_span")
            /\ _telemetry_initialized' = FALSE
            /\ UNCHANGED spans
  /\ UNCHANGED << environ, SERVICE_NAME, tracer_provider, textmap, ncalls >>

(* Lines 125-133: the verification span, with its service.name attribute. *)
TestSpan(t) ==
  /\ frame[t].pc = "test_span"
  /\ \E ok \in BOOLEAN :
       IF ok
       THEN /\ Done(t, "test_span", frame[t])
            /\ spans' = spans \cup {frame[t].actual_service_name}
       ELSE /\ Raise(t, "test_span")
            /\ UNCHANGED spans
  /\ UNCHANGED << environ, SERVICE_NAME, globals, ncalls >>

(* Lines 135-136: return True. *)
ReturnTrue(t) ==
  /\ frame[t].pc = "return"
  /\ Finish(t, "True", None)
  /\ UNCHANGED << environ, SERVICE_NAME, globals, ncalls, count, spans >>

(* One step of a call in progress. *)
Step(t) ==
  \/ CheckInitialized(t)
  \/ ConnectivityProbe(t)
  \/ CreateResource(t)
  \/ CreateTracerProvider(t)
  \/ CreateExporter(t)
  \/ AddSpanProcessor(t)
  \/ SetTracerProvider(t)
  \/ SetGlobalTextmap(t)
  \/ SetInitialized(t)
  \/ TestSpan(t)
  \/ ReturnTrue(t)

(* Sequential callers: the main thread calls setup_telemetry again and
   again, each call starting after the one before it ended. *)
Next ==
  \/ Call(MainThread)
  \/ \E t \in Threads : Step(t)

Spec == Init /\ [][Next]_vars

(* Concurrent callers: any thread may call while another is in a call. *)
ConcNext ==
  \/ \E t \in Threads : Call(t)
  \/ \E t \in Threads : Step(t)

ConcSpec == Init /\ [][ConcNext]_vars

(***************************************************************************)
(* Properties                                                              *)
(***************************************************************************)

(* The call of thread t ends in this step. *)
Returns(t) == frame[t].pc # "idle" /\ frame'[t].pc = "idle"

(* The thread is past the flag check, inside the setup sequence. *)
InSetup(t) == frame[t].pc \in Steps \cup {"return"}

(* The steps from the probe through `step`; all of them for None. *)
StepsThrough(step) ==
  IF step = None THEN Steps
  ELSE { StepOrder[i] : i \in 1..(CHOOSE k \in 1..Len(StepOrder) :
                                     StepOrder[k] = step) }

(* The service name the specification prescribes for a call with argument
   `arg`: the argument if one was passed, else the environment variable if
   it is set, else the default. *)
PassedOverridesEnv(arg) ==
  IF arg # None THEN arg
  ELSE IF environ # None THEN environ ELSE DefaultServiceName

(* The same with "passed" read as "passed and truthy". *)
TruthyOverridesEnv(arg) ==
  IF Truthy(arg) THEN arg
  ELSE IF environ # None THEN environ ELSE DefaultServiceName

(* The resolved name `name` is the one the call of thread t uses: in its
   local, in the resource of its provider, and in its verification span. *)
UsesServiceName(t, name) ==
  /\ frame[t].actual_service_name = name
  /\ \A p \in frame[t].provider : p.service = name
  /\ frame[t].pc = "return" => name \in spans

(* C1: over any sequence of calls, exporter construction, provider
   installation and test-span emission each happen at most once. *)
C1_SetupAtMostOnce ==
  /\ count["exporter"] <= 1
  /\ count["set_tracer_provider"] <= 1
  /\ count["test_span"] <= 1

(* C2: a call made while the flag is set returns False at once: it runs no
   step of the setup sequence, constructs and emits nothing, and leaves the
   global provider, the global propagator and the flag as they are; and once
   a call has returned True, every call that ends later returns False. *)
C2_AlreadyInitializedShortCircuits ==
  [][\A t \in Threads :
       /\ frame[t].entry_flag =>
            /\ UNCHANGED << globals, count, spans >>
            /\ frame'[t].pc \in {"check", "idle"}
            /\ Returns(t) => last'.result = "False" /\ last'.trail = {}
       /\ (true_returns >= 1 /\ Returns(t)) =>
            last'.result = "False" /\ last'.trail = {}]_vars

(* C2 witness: after a call returned True, a later call was made with the
   flag set and has returned False. *)
C2_Witness ==
  /\ true_returns = 1
  /\ last.entry_flag
  /\ last.result = "False"
  /\ ncalls >= 2

(* C3: with concurrent callers, at most one caller is ever past the flag
   check and inside the construction sequence. *)
C3_AtMostOneCallerInSetup ==
  Cardinality({ t \in Threads : InSetup(t) }) <= 1

(* C4: no call ends by an exception leaving setup_telemetry: every call
   ends with True or False, whichever step raised, and a call in which a
   step from resource construction through the verification span raised
   ends with False. *)
C4_NeverRaises ==
  /\ last.result \in {"none", "True", "False"}
  /\ last.raised # None => last.result = "False" /\ last.raised \in SetupTry
  /\ last.result = "True" => last.raised = None

(* C4 witness: a call in which the probe failed and a later step raised
   has ended, with False. *)
C4_Witness ==
  /\ last.probe_ok = FALSE
  /\ last.raised \in SetupTry
  /\ last.result = "False"

(* C5: the probe never gates: no call ends because of the probe, the step
   after the probe is resource construction whether it failed or not, and a
   call made with the flag unset in which no later step raised ran every
   step, installed provider and propagator, set the flag and returned True,
   also when its probe failed. *)
C5_ProbeNeverGates ==
  /\ last.raised \notin ProbeTry
  /\ \A t \in Threads :
       frame[t].trail = {"probe"} => frame[t].pc = "resource"
  /\ (last.result # "none" /\ ~last.entry_flag) =>
       /\ last.trail = StepsThrough(last.raised)
       /\ last.raised = None =>
            /\ last.result = "True"
            /\ _telemetry_initialized
            /\ tracer_provider # {}
            /\ textmap # {}

(* C5 witness: a call whose probe failed has returned True. *)
C5_Witness ==
  /\ last.probe_ok = FALSE
  /\ last.result = "True"
  /\ _telemetry_initialized

(* C6: a call made with the flag unset in which the exporter constructor
   raised returns False, leaves the flag unset and has not installed its
   provider; the call after it passes the flag check and runs the setup
   sequence again from the probe. *)
C6_ExporterFailureAllowsRetry ==
  [][\A t \in Threads :
       /\ (Returns(t) /\ last'.raised = "exporter") =>
            /\ last'.result = "False"
            /\ ~_telemetry_initialized'
            /\ "set_tracer_provider" \notin last'.trail
            /\ tracer_provider' \cap frame[t].provider = {}
            /\ UNCHANGED globals
       /\ (frame[t].pc = "check" /\ last.raised = "exporter"
           /\ frame'[t].pc # "check") =>
            frame'[t].pc = "probe"]_vars

(* C6 witness: the call after one whose exporter constructor raised is
   running the setup sequence again. *)
C6_Witness ==
  /\ last.raised = "exporter"
  /\ ~last.entry_flag
  /\ frame[MainThread].pc = "exporter"
  /\ ncalls >= 2

C8_PassedArgumentAlwaysOverrides ==
  \A t \in Threads :
    frame[t].pc # "idle" =>
      UsesServiceName(t, PassedOverridesEnv(frame[t].service_name))

(* C8 as amended: a passed argument that is truthy (not None, not the
   empty string) is the service name of the resource and of the
   verification span; otherwise the value OTEL_SERVICE_NAME had when the
   module was imported, if it was set (even to ""); otherwise the default
   'kodekloud-record-store-service'. *)
C8_TruthyArgumentOverrides ==
  \A t \in Threads :
    frame[t].pc # "idle" =>
      UsesServiceName(t, TruthyOverridesEnv(frame[t].service_name))

(* C8 witness: a call with an explicit name, made with the environment
   variable set, has emitted its verification span. *)
C8_Witness ==
  /\ environ = "env-svc"
  /\ \E t \in Threads :
       /\ frame[t].pc = "return"
       /\ frame[t].service_name = "svc-a"
       /\ "svc-a" \in spans

(* C9: the flag is set after provider and propagator are installed and
   before the verification span; a call whose verification span raised
   returns False and leaves the flag set and the provider installed; every
   later call returns False without running the setup sequence, so the flag
   can be set although no call returned True. *)
C9_FlagSetBeforeTestSpan ==
  [][\A t \in Threads :
       /\ frame[t].pc \in {"set_flag", "test_span"} =>
            /\ tracer_provider # {} /\ textmap # {}
            /\ _telemetry_initialized <=> frame[t].pc = "test_span"
       /\ (Returns(t) /\ last'.raised = "test_span") =>
            /\ last'.result = "False"
            /\ _telemetry_initialized' /\ tracer_provider' # {}
            /\ true_returns' = 0
       /\ (_telemetry_initialized /\ true_returns = 0
           /\ \A u \in Threads : ~InSetup(u)) =>
            /\ UNCHANGED << globals, count, spans, true_returns >>
            /\ ~InSetup(t)'
            /\ Returns(t) => last'.result = "False" /\ last'.trail = {}]_vars

(* C9 witness: the flag is set, no call has returned True, and a call made
   after the one whose span failed has returned False. *)
C9_Witness ==
  /\ _telemetry_initialized
  /\ true_returns = 0
  /\ last.entry_flag
  /\ last.result = "False"

(* C10: for sequential callers: when the flag is set, provider and
   propagator are installed; the flag is never cleared; a call returns True
   only with the flag set and its own verification span emitted; at most
   one call returns True. *)
C10_FlagInvariant ==
  /\ [](_telemetry_initialized => tracer_provider # {} /\ textmap # {})
  /\ [](true_returns <= 1)
  /\ [][/\ _telemetry_initialized => _telemetry_initialized'
        /\ \A t \in Threads :
             (Returns(t) /\ last'.result = "True") =>
               /\ _telemetry_initialized'
               /\ "test_span" \in last'.trail
               /\ ~last'.entry_flag]_vars

(* C10 witness: a call has returned True and a later call has ended. *)
C10_Witness ==
  /\ true_returns = 1
  /\ _telemetry_initialized
  /\ last.result = "False"

====
